---- MODULE Spec2Model ----
(***************************************************************************)
(* A model of the styx hexastore: the ingest path (db/insert.go) and the   *)
(* query planner (query.MakeConstraintGraph) with the backtracking cursor  *)
(* that runs on the graph it builds.                                       *)
(*                                                                         *)
(* Spec      : sequences of DB.insert calls on an initially empty store.   *)
(* QuerySpec : one store, one pattern; MakeConstraintGraph, then a cursor  *)
(*             driven by Next(pivot) calls.                                *)
(***************************************************************************)
EXTENDS Integers, Sequences, FiniteSets, TLC

VARIABLES
    db,      \* the key/value store seen through the transaction
    clock,   \* time.Now(), as a counter
    offered, \* number of quads handed to insert so far (bounds the model)
    last,    \* the last insert call: its arguments, its result and the store before it
    pattern, \* the pattern quads of the query
    g,       \* the constraint graph returned by MakeConstraintGraph
    gerr,    \* the error returned by MakeConstraintGraph
    cur,     \* the cursor: status, current values, trace of emitted assignments
    phase,   \* "ingest" | "failed" | "pattern" | "built" | "uri"
    uri      \* a URI scheme's functions applied to a CID and a fragment

vars == <<db, clock, offered, last, pattern, g, gerr, cur, phase, uri>>

-----------------------------------------------------------------------------
(* Bounds of the model *)

\* dataset content hashes are 1..MaxCid
MaxCid == 2
\* total number of quads handed to insert over one behaviour of Spec
MaxOffered == 3
\* a call of insert in which an operation of the key/value store fails: the
\* number of quads it is handed, the number of quads offered before it, and
\* the operations of the call among which the failing one is chosen
MaxFaultQuads == 1
MaxFaultOffered == 1
MaxOps == 40
\* number of triples in the store of QuerySpec
MaxStore == 2
\* number of quads in a pattern
MaxPattern == 2
\* number of Next calls on one cursor
MaxNext == 4
\* number of Next calls on a cursor that is driven to its end with one pivot:
\* more than there are assignments of three variables over two identifiers
MaxCalls == 9

-----------------------------------------------------------------------------
(* Generic helpers *)

EmptyMap == [x \in {} |-> 0]

Put(f, k, v) == [x \in DOMAIN f \cup {k} |-> IF x = k THEN v ELSE f[x]]

Has(f, k) == k \in DOMAIN f

Min(S) == CHOOSE x \in S : \A y \in S : x <= y

Max(S) == CHOOSE x \in S : \A y \in S : x >= y

RECURSIVE SetToSeq(_)
\* the elements of a set of integers, ascending (sort.Ints)
SetToSeq(S) == IF S = {} THEN <<>> ELSE <<Min(S)>> \o SetToSeq(S \ {Min(S)})

Range(s) == {s[i] : i \in 1..Len(s)}

-----------------------------------------------------------------------------
(* Terms and quads *)

\* a ground term (IRI or literal)
Ground(v) == [b |-> FALSE, v |-> v]

\* a blank node with its label (ld.BlankNode.Attribute)
Blank(v) == [b |-> TRUE, v |-> v]

Quad(s, p, o, gr) == [s |-> s, p |-> p, o |-> o, g |-> gr]

\* types.NodeToValue: the dictionary value of a node of dataset `origin`;
\* a blank node is qualified by the dataset it comes from
NodeToValue(origin, node) == IF node.b THEN <<origin, node.v>> ELSE <<0, node.v>>

\* permuteMajor(i, s, p, o): SPO, POS, OSP
permuteMajor(i, s, p, o) ==
    CASE i = 0 -> <<s, p, o>>
      [] i = 1 -> <<p, o, s>>
      [] i = 2 -> <<o, s, p>>

\* permuteMinor(i, s, p, o): SOP, PSO, OPS
permuteMinor(i, s, p, o) ==
    CASE i = 0 -> <<s, o, p>>
      [] i = 1 -> <<p, s, o>>
      [] i = 2 -> <<o, p, s>>

-----------------------------------------------------------------------------
(* The store *)

EmptyDB ==
    [ graphs  |-> EmptyMap,   \* GraphPrefix  : <<cid, graph>> -> insert date
      index   |-> EmptyMap,   \* IndexPrefix  : value -> Index{id, per-place counts}
      values  |-> EmptyMap,   \* ValuePrefix  : id -> value
      counts  |-> EmptyMap,   \* Major/MinorPrefixes : <<kind, i, a, b>> -> uint64
      triples |-> EmptyMap,   \* TriplePrefixes : <<i, a, b, c>> -> source list
      seq     |-> 0 ]         \* db.Sequence

\* Index.Increment(place)
Increment(index, place) ==
    [index EXCEPT !.cnt = [index.cnt EXCEPT ![place + 1] = @ + 1]]

\* the errors insert ends with besides nil: the sanity check's, a failure of
\* the key/value store, and the run-time panic of a nil pointer dereference
ErrMismatch == "Mismatching major & minor index values"
ErrKV == "kv failure"
ErrPanic == "panic: nil pointer dereference"

\* the transaction state threaded through one insert call: the store as the
\* transaction sees it, the call's index and value maps, the error and the
\* values returned by the last step; ops counts the operations on the
\* key/value store so far and failAt is the operation that fails (0: none)
Txn(d, failAt) ==
    [db |-> d, indexMap |-> EmptyMap, valueMap |-> EmptyMap, err |-> "nil", id |-> 0,
     count |-> 0, ops |-> 0, failAt |-> failAt, atFault |-> d]

\* one operation on the key/value store (txn.Get, item.ValueCopy, txn.Set,
\* Sequence.Next, Commit): it fails with an error other than key-not-found
\* if it is the one chosen to fail
KV(t) ==
    IF t.failAt = t.ops + 1
    THEN [t EXCEPT !.ops = @ + 1, !.err = ErrKV, !.atFault = t.db]
    ELSE [t EXCEPT !.ops = @ + 1]

\* getIDMissing with the sequence not advanced: the next new term gets the same id
getIDMissing_NoAdvance(t, origin, node, place) ==
    LET v == NodeToValue(origin, node)
        index == [id |-> t.db.seq, cnt |-> <<0, 0, 0>>]
    IN  [t EXCEPT !.valueMap = Put(@, index.id, v),
                  !.indexMap = Put(@, v, Increment(index, place)),
                  !.id = index.id]

\* DB.getID, the key-not-found branch: a fresh identifier from the sequence,
\* recorded in the call's value map and index map
getIDMissing(t, origin, node, place) ==
    LET v == NodeToValue(origin, node)
        index == [id |-> t.db.seq, cnt |-> <<0, 0, 0>>]
    IN  [t EXCEPT !.db.seq = @ + 1,
                  !.valueMap = Put(@, index.id, v),
                  !.indexMap = Put(@, v, Increment(index, place)),
                  !.id = index.id]

\* DB.getID: the identifier of a node, from the call's index map, else from
\* the store, else a fresh one from the sequence
getID(t, origin, node, place) ==
    LET v == NodeToValue(origin, node)
        get == KV(t)
        read == KV(get)
    IN  IF Has(t.indexMap, v)
        THEN [t EXCEPT !.indexMap = Put(@, v, Increment(t.indexMap[v], place)),
                       !.id = t.indexMap[v].id]
        ELSE IF get.err # "nil" THEN get
        ELSE IF read.err # "nil" THEN read
        ELSE IF ~Has(t.db.index, v)
        THEN getIDMissing(read, origin, node, place)
        ELSE [read EXCEPT !.indexMap = Put(@, v, Increment(t.db.index[v], place)),
                          !.id = t.db.index[v].id]

\* the end of setCount: the count is written with txn.Set and returned
putCount(t, key, n) ==
    LET set == KV(t)
    IN  IF set.err # "nil" THEN [set EXCEPT !.count = n]
        ELSE [set EXCEPT !.db.counts = Put(@, key, n), !.count = n]

\* setCount: write 1 for a nonexistent key, increment an existing one
setCount(t, key) ==
    LET get == KV(t)
        read == KV(get)
    IN  IF get.err # "nil" THEN get
        ELSE IF ~Has(t.db.counts, key) THEN putCount(get, key, 1)
        ELSE IF read.err # "nil" THEN read
        ELSE putCount(read, key, t.db.counts[key] + 1)

\* setCounts with the minor key assembled from the major permutation
RECURSIVE setCountsFrom_MajorTwice(_, _, _, _, _, _, _)
setCountsFrom_MajorTwice(t, i, s, p, o, major, minor) ==
    IF i = 3 THEN [t |-> t, major |-> major, minor |-> minor]
    ELSE LET mj == permuteMajor(i, s, p, o)
             t1 == setCount(t, <<"major", i, mj[1], mj[2]>>)
             t2 == setCount(t1, <<"minor", i, mj[1], mj[2]>>)
         IN  IF t1.err # "nil" THEN [t |-> t1, major |-> major, minor |-> minor]
             ELSE IF t2.err # "nil" THEN [t |-> t2, major |-> major, minor |-> minor]
             ELSE setCountsFrom_MajorTwice(t2, i + 1, s, p, o,
                                           [major EXCEPT ![i + 1] = t1.count],
                                           [minor EXCEPT ![i + 1] = t2.count])

RECURSIVE setCountsFrom(_, _, _, _, _, _, _)
\* setCounts: the major and the minor key of each of the three rotations;
\* major[i] and minor[i] are the counts setCount returns
setCountsFrom(t, i, s, p, o, major, minor) ==
    IF i = 3 THEN [t |-> t, major |-> major, minor |-> minor]
    ELSE LET mj == permuteMajor(i, s, p, o)
             mn == permuteMinor(i, s, p, o)
             t1 == setCount(t, <<"major", i, mj[1], mj[2]>>)
             t2 == setCount(t1, <<"minor", i, mn[1], mn[2]>>)
         IN  IF t1.err # "nil" THEN [t |-> t1, major |-> major, minor |-> minor]
             ELSE IF t2.err # "nil" THEN [t |-> t2, major |-> major, minor |-> minor]
             ELSE setCountsFrom(t2, i + 1, s, p, o,
                                [major EXCEPT ![i + 1] = t1.count],
                                [minor EXCEPT ![i + 1] = t2.count])

setCounts(t, s, p, o) == setCountsFrom(t, 0, s, p, o, <<0, 0, 0>>, <<0, 0, 0>>)

\* the sanity check that majors and minors have the same values
Mismatch(major, minor) == \E i \in 0..2 : major[i + 1] # minor[((i + 1) % 3) + 1]

\* the keyspaces the triple loop writes: i < 3, TriplePrefixes[i] with permuteMajor
TripleLoop == 0..2

\* the triple loop writing a source list that holds the new source only
RECURSIVE setTriplesFrom_Overwrite(_, _, _, _, _, _)
setTriplesFrom_Overwrite(t, i, s, p, o, source) ==
    IF i \notin TripleLoop THEN t
    ELSE LET k == permuteMajor(i, s, p, o)
             key == <<i, k[1], k[2], k[3]>>
             get == KV(t)
             found == Has(t.db.triples, key)
             read == IF found THEN KV(get) ELSE get
             set == KV(read)
         IN  IF get.err # "nil" THEN get
             ELSE IF read.err # "nil" THEN read
             ELSE IF set.err # "nil" THEN set
             ELSE setTriplesFrom_Overwrite([set EXCEPT !.db.triples = Put(@, key, <<source>>)],
                                           i + 1, s, p, o, source)

RECURSIVE setTriplesFrom(_, _, _, _, _, _)
\* the triple loop: append the source to the source list of each triple key
setTriplesFrom(t, i, s, p, o, source) ==
    IF i \notin TripleLoop THEN t
    ELSE LET k == permuteMajor(i, s, p, o)
             key == <<i, k[1], k[2], k[3]>>
             get == KV(t)
             found == Has(t.db.triples, key)
             read == IF found THEN KV(get) ELSE get
             set == KV(read)
             sources == IF found THEN Append(t.db.triples[key], source) ELSE <<source>>
         IN  IF get.err # "nil" THEN get
             ELSE IF read.err # "nil" THEN read
             ELSE IF set.err # "nil" THEN set
             ELSE setTriplesFrom([set EXCEPT !.db.triples = Put(@, key, sources)],
                                 i + 1, s, p, o, source)

\* the graph a quad belongs to
QuadGraph(quad) == IF quad.g = "nil" THEN "@default" ELSE quad.g

\* the body of the loop over quads, for the quad at position `index` (from 0)
insertQuad(t, cid, quad, index) ==
    LET source == [cid |-> cid, graph |-> QuadGraph(quad), index |-> index]
        ts == getID(t, cid, quad.s, 0)
        tp == getID(ts, cid, quad.p, 1)
        to == getID(tp, cid, quad.o, 2)
        s == ts.id
        p == tp.id
        o == to.id
        c == setCounts(to, s, p, o)
    IN  IF ts.err # "nil" THEN ts
        ELSE IF tp.err # "nil" THEN tp
        ELSE IF to.err # "nil" THEN to
        ELSE IF c.t.err # "nil" THEN c.t
        ELSE IF Mismatch(c.major, c.minor) THEN [c.t EXCEPT !.err = ErrMismatch]
        ELSE setTriplesFrom(c.t, 0, s, p, o, source)

RECURSIVE insertLoop(_, _, _, _, _)
insertLoop(t, cid, quads, graph, n) ==
    IF n > Len(quads) \/ t.err # "nil" THEN t
    ELSE IF QuadGraph(quads[n]) # graph
    THEN insertLoop(t, cid, quads, graph, n + 1)
    ELSE insertLoop(insertQuad(t, cid, quads[n], n - 1), cid, quads, graph, n + 1)

RECURSIVE CommitMap(_, _, _)
\* IndexMap.Commit / ValueMap.Commit: write every entry of the call's map
CommitMap(kv, m, keys) ==
    IF keys = {} THEN kv
    ELSE LET k == CHOOSE x \in keys : TRUE
         IN  CommitMap(Put(kv, k, m[k]), m, keys \ {k})

\* the duplicate check never finding the graph key
Duplicate_Never(d, cid, graph) == FALSE

\* whether insert finds the document already in the database
Duplicate(d, cid, graph) == Has(d.graphs, <<cid, graph>>)

\* what a call of insert leaves: the store as the transaction sees it, the
\* error returned, and whether and where the chosen operation failed
Returned(t) ==
    [db |-> t.db, err |-> t.err, ops |-> t.ops,
     fired |-> t.failAt \in 1..t.ops, atFault |-> t.atFault]

\* the two commits that end insert
commit(t) ==
    LET ci == KV(t)
        t1 == [ci EXCEPT !.db.index = CommitMap(@, t.indexMap, DOMAIN t.indexMap)]
        cv == KV(t1)
    IN  IF ci.err # "nil" THEN ci
        ELSE IF cv.err # "nil" THEN cv
        ELSE [cv EXCEPT !.db.values = CommitMap(@, t.valueMap, DOMAIN t.valueMap)]

\* DB.insert: the store after the call and the error it returns. The lookup
\* of the graph key that fails with an error other than key-not-found leaves
\* item nil, and item.Value is called on it.
insert(d, cid, quads, graph, now, failAt) ==
    LET get == KV(Txn(d, failAt))
        value == KV(get)
        set == KV(get)
        t1 == insertLoop([set EXCEPT !.db.graphs = Put(@, <<cid, graph>>, now)],
                         cid, quads, graph, 1)
    IN  IF get.err # "nil" THEN Returned([get EXCEPT !.err = ErrPanic])
        ELSE IF Duplicate(d, cid, graph) THEN Returned(value)
        ELSE IF set.err # "nil" THEN Returned(set)
        ELSE IF t1.err # "nil" THEN Returned(t1)
        ELSE Returned(commit(t1))

-----------------------------------------------------------------------------
(* The constraint graph: query.MakeConstraintGraph *)

\* the places of a constraint: the owner's position(s) in the triple
pS == 0
pP == 1
pO == 2
pSP == 3
pOS == 4
pPO == 5

ErrKeyNotFound == "badger.ErrKeyNotFound"
ErrAllBlank == "Cannot handle all-blank triple"

\* the HasID values a constraint holds in M and N: nothing (c.M of a z-degree
\* constraint), a blank node, or the Index of a ground term
NoID == [b |-> FALSE, id |-> -1, name |-> "", cnt |-> <<0, 0, 0>>]
BlankNode(name) == [b |-> TRUE, id |-> -1, name |-> name, cnt |-> <<0, 0, 0>>]
IndexID(index) == [b |-> FALSE, id |-> index.id, name |-> "", cnt |-> index.cnt]

\* getAttribute: the label of a blank node, "" for any other node
getAttribute(node) == IF node.b THEN node.v ELSE ""

\* types.IndexMap.Get: the dictionary entry of a ground term, if there is one
IndexMapGet(d, node) ==
    LET v == NodeToValue(0, node)
    IN  IF Has(d.index, v) THEN [index |-> d.index[v], err |-> "nil"]
        ELSE [index |-> [id |-> -1, cnt |-> <<0, 0, 0>>], err |-> ErrKeyNotFound]

\* query.getID: a blank node is its own HasID; a ground term is looked up in
\* the dictionary and the lookup's key-not-found error is returned as it is
queryGetID(d, node) ==
    IF node.b THEN [hasID |-> BlankNode(node.v), err |-> "nil"]
    ELSE LET r == IndexMapGet(d, node)
         IN  IF r.err = ErrKeyNotFound THEN [hasID |-> NoID, err |-> r.err]
             ELSE [hasID |-> IndexID(r.index), err |-> "nil"]

\* a pointer to a constraint: the pattern quad it was built for and its place
Ref(quad, place) == [quad |-> quad, Place |-> place]

\* the nil Dual of a constraint that is not second-degree
NoDual == Ref(0, -1)

Constraint(place, m, n, quad) ==
    [Place |-> place, M |-> m, N |-> n, quad |-> quad, Dual |-> NoDual]

NewVariable == [D1 |-> <<>>, DZ |-> <<>>, D2 |-> EmptyMap, Score |-> -1]

EmptyGraph ==
    [Slice |-> <<>>, Index |-> EmptyMap, Map |-> EmptyMap, In |-> EmptyMap, Out |-> EmptyMap]

\* ConstraintGraph.GetIndex: the variable named u, created and appended to
\* the slice the first time it is met
GetIndex(gr, u) ==
    IF Has(gr.Index, u) THEN gr
    ELSE [gr EXCEPT !.Index = Put(@, u, NewVariable), !.Slice = Append(@, u)]

insertD1(gr, u, c) ==
    LET g1 == GetIndex(gr, u)
    IN  [g1 EXCEPT !.Index = Put(@, u, [g1.Index[u] EXCEPT !.D1 = Append(@, c)])]

insertDZ(gr, u, c) ==
    LET g1 == GetIndex(gr, u)
    IN  [g1 EXCEPT !.Index = Put(@, u, [g1.Index[u] EXCEPT !.DZ = Append(@, c)])]

insertD2(gr, u, v, c) ==
    LET g1 == GetIndex(gr, u)
        var == g1.Index[u]
        cs == IF Has(var.D2, v) THEN var.D2[v] ELSE <<>>
    IN  [g1 EXCEPT !.Index = Put(@, u, [var EXCEPT !.D2 = Put(@, v, Append(cs, c))])]

\* the result of the loop over quads so far
Building(gr) == [g |-> gr, err |-> "nil", isNil |-> FALSE, scored |-> FALSE, inserted |-> <<>>]

\* the first-degree branch with the two getID calls in the opposite order
firstDegree_Swapped(r, d, u, place, mNode, nNode, q) ==
    LET m == queryGetID(d, nNode)
        n == queryGetID(d, mNode)
    IN  IF m.err # "nil" THEN [r EXCEPT !.err = m.err]
        ELSE IF n.err # "nil" THEN [r EXCEPT !.err = n.err]
        ELSE [r EXCEPT !.g = insertD1(@, u, Constraint(place, m.hasID, n.hasID, q))]

\* a first-degree constraint: place, and the nodes that supply M and N
firstDegree(r, d, u, place, mNode, nNode, q) ==
    LET m == queryGetID(d, mNode)
        n == queryGetID(d, nNode)
    IN  IF m.err # "nil" THEN [r EXCEPT !.err = m.err]
        ELSE IF n.err # "nil" THEN [r EXCEPT !.err = n.err]
        ELSE [r EXCEPT !.g = insertD1(@, u, Constraint(place, m.hasID, n.hasID, q))]

\* a z-degree constraint: the same blank node in two positions
zeroDegree(r, d, u, place, nNode, q) ==
    LET n == queryGetID(d, nNode)
    IN  IF n.err # "nil" THEN [r EXCEPT !.err = n.err]
        ELSE [r EXCEPT !.g = insertDZ(@, u, Constraint(place, NoID, n.hasID, q))]

\* the second-degree branch with M and N of the constraint v exchanged
secondDegree_SwapV(r, d, a, b, placeU, uM, uN, placeV, vM, vN, q) ==
    LET um == queryGetID(d, uM)
        un == queryGetID(d, uN)
        vm == queryGetID(d, vN)
        vn == queryGetID(d, vM)
    IN  IF um.err # "nil" THEN [r EXCEPT !.err = um.err]
        ELSE IF un.err # "nil" THEN [r EXCEPT !.err = un.err]
        ELSE IF vm.err # "nil" THEN [r EXCEPT !.err = vm.err]
        ELSE IF vn.err # "nil" THEN [r EXCEPT !.err = vn.err]
        ELSE LET u == [Constraint(placeU, um.hasID, un.hasID, q) EXCEPT !.Dual = Ref(q, placeV)]
                 v == [Constraint(placeV, vm.hasID, vn.hasID, q) EXCEPT !.Dual = Ref(q, placeU)]
             IN  [r EXCEPT !.g = insertD2(insertD2(@, a, b, u), b, a, v)]

\* the second-degree branch with the cross-link set on one side only:
\* v.Dual points at v itself
secondDegree_OneWay(r, d, a, b, placeU, uM, uN, placeV, vM, vN, q) ==
    LET um == queryGetID(d, uM)
        un == queryGetID(d, uN)
        vm == queryGetID(d, vM)
        vn == queryGetID(d, vN)
    IN  IF um.err # "nil" THEN [r EXCEPT !.err = um.err]
        ELSE IF un.err # "nil" THEN [r EXCEPT !.err = un.err]
        ELSE IF vm.err # "nil" THEN [r EXCEPT !.err = vm.err]
        ELSE IF vn.err # "nil" THEN [r EXCEPT !.err = vn.err]
        ELSE LET u == [Constraint(placeU, um.hasID, un.hasID, q) EXCEPT !.Dual = Ref(q, placeV)]
                 v == [Constraint(placeV, vm.hasID, vn.hasID, q) EXCEPT !.Dual = Ref(q, placeV)]
             IN  [r EXCEPT !.g = insertD2(insertD2(@, a, b, u), b, a, v)]

\* two second-degree constraints u and v, each the other's dual
secondDegree(r, d, a, b, placeU, uM, uN, placeV, vM, vN, q) ==
    LET um == queryGetID(d, uM)
        un == queryGetID(d, uN)
        vm == queryGetID(d, vM)
        vn == queryGetID(d, vN)
    IN  IF um.err # "nil" THEN [r EXCEPT !.err = um.err]
        ELSE IF un.err # "nil" THEN [r EXCEPT !.err = un.err]
        ELSE IF vm.err # "nil" THEN [r EXCEPT !.err = vm.err]
        ELSE IF vn.err # "nil" THEN [r EXCEPT !.err = vn.err]
        ELSE LET u == [Constraint(placeU, um.hasID, un.hasID, q) EXCEPT !.Dual = Ref(q, placeV)]
                 v == [Constraint(placeV, vm.hasID, vn.hasID, q) EXCEPT !.Dual = Ref(q, placeU)]
             IN  [r EXCEPT !.g = insertD2(insertD2(@, a, b, u), b, a, v)]

\* the body of the loop over the pattern's quads, for quad number q
constrainQuad(r, d, quad, q) ==
    LET s == getAttribute(quad.s)
        p == getAttribute(quad.p)
        o == getAttribute(quad.o)
        S == quad.s.b
        P == quad.p.b
        O == quad.o.b
    IN  IF ~S /\ ~P /\ ~O THEN r
        ELSE IF S /\ P /\ O THEN [r EXCEPT !.err = ErrAllBlank, !.isNil = TRUE]
        ELSE IF S /\ ~P /\ ~O THEN firstDegree(r, d, s, 0, quad.p, quad.o, q)
        ELSE IF ~S /\ P /\ ~O THEN firstDegree(r, d, p, 1, quad.o, quad.s, q)
        ELSE IF ~S /\ ~P /\ O THEN firstDegree(r, d, o, 2, quad.s, quad.p, q)
        ELSE IF ~O /\ s = p THEN zeroDegree(r, d, s, pSP, quad.o, q)
        ELSE IF ~P /\ o = s THEN zeroDegree(r, d, o, pOS, quad.p, q)
        ELSE IF ~S /\ p = o THEN zeroDegree(r, d, p, pPO, quad.s, q)
        ELSE IF S /\ P /\ ~O
        THEN secondDegree(r, d, s, p, pS, quad.p, quad.o, pP, quad.o, quad.s, q)
        ELSE IF S /\ ~P /\ O
        THEN secondDegree(r, d, s, o, pS, quad.p, quad.o, pO, quad.s, quad.p, q)
        ELSE secondDegree(r, d, p, o, pP, quad.o, quad.s, pO, quad.s, quad.p, q)

RECURSIVE constrainLoop(_, _, _, _)
\* the loop over the pattern's quads: the first error ends it
constrainLoop(r, d, quads, q) ==
    IF q > Len(quads) \/ r.err # "nil" THEN r
    ELSE constrainLoop(constrainQuad(r, d, quads[q], q), d, quads, q + 1)

\* the count stored at a two-term key; a missing key counts 0
CountAt(d, key) == IF Has(d.counts, key) THEN d.counts[key] ELSE 0

\* the ground term of a second-degree constraint: the one of M, N that is no blank node
GroundOf(c) == IF c.M.b THEN c.N ELSE c.M

\* the position in the triple of M and of N, by the place of the owner
PlaceOfM(c) == (c.Place + 1) % 3
PlaceOfN(c) == (c.Place + 2) % 3

\* the position of N in the triple of a z-degree constraint
PlaceOfZ(c) == CASE c.Place = pSP -> 2 [] c.Place = pOS -> 1 [] c.Place = pPO -> 0

RECURSIVE SumSeq(_)
SumSeq(q) == IF q = <<>> THEN 0 ELSE Head(q) + SumSeq(Tail(q))

RECURSIVE Flatten(_, _)
\* the constraints of a map from co-variable to constraint list
Flatten(m, keys) ==
    IF keys = {} THEN <<>>
    ELSE LET k == CHOOSE x \in keys : TRUE IN m[k] \o Flatten(m, keys \ {k})

\* Variable.Score: the least first-degree range size; else the one-term count
\* of a z-degree constraint's ground term; else the sum of the one-term counts
\* of the second-degree constraints' ground terms
Score(d, var) ==
    IF var.D1 # <<>>
    THEN Min({CountAt(d, <<"major", PlaceOfM(var.D1[n]), var.D1[n].M.id, var.D1[n].N.id>>) :
                 n \in 1..Len(var.D1)})
    ELSE IF var.DZ # <<>>
    THEN Min({var.DZ[n].N.cnt[PlaceOfZ(var.DZ[n]) + 1] : n \in 1..Len(var.DZ)})
    ELSE LET cs == Flatten(var.D2, DOMAIN var.D2)
         IN  SumSeq([n \in 1..Len(cs) |->
                        LET c == cs[n]
                        IN  IF c.M.b THEN c.N.cnt[PlaceOfN(c) + 1] ELSE c.M.cnt[PlaceOfM(c) + 1]])

\* the scoring loop over g.Slice
ScoreAll(d, gr) ==
    [gr EXCEPT !.Index = [u \in DOMAIN gr.Index |->
                             [gr.Index[u] EXCEPT !.Score = Score(d, gr.Index[u])]]]

\* ConstraintGraph.Less: by score
Less(gr, a, b) == gr.Index[a].Score < gr.Index[b].Score

RECURSIVE InsertStable(_, _, _)
\* x put behind every element of the sorted list that is not greater than it
InsertStable(gr, sorted, x) ==
    IF sorted = <<>> THEN <<x>>
    ELSE IF Less(gr, x, Head(sorted)) THEN <<x>> \o sorted
    ELSE <<Head(sorted)>> \o InsertStable(gr, Tail(sorted), x)

RECURSIVE StableFrom(_, _, _)
StableFrom(gr, sorted, rest) ==
    IF rest = <<>> THEN sorted
    ELSE StableFrom(gr, InsertStable(gr, sorted, Head(rest)), Tail(rest))

\* an unstable sort: equal elements come out in reverse
RECURSIVE InsertUnstable(_, _, _)
InsertUnstable(gr, sorted, x) ==
    IF sorted = <<>> THEN <<x>>
    ELSE IF ~Less(gr, Head(sorted), x) THEN <<x>> \o sorted
    ELSE <<Head(sorted)>> \o InsertUnstable(gr, Tail(sorted), x)

RECURSIVE UnstableFrom(_, _, _)
UnstableFrom(gr, sorted, rest) ==
    IF rest = <<>> THEN sorted
    ELSE UnstableFrom(gr, InsertUnstable(gr, sorted, Head(rest)), Tail(rest))

SortSlice_Unstable(gr) == [gr EXCEPT !.Slice = UnstableFrom(gr, <<>>, gr.Slice)]

\* sort.Stable(g): the slice ascending by score, equal scores in their old order
SortSlice(gr) == [gr EXCEPT !.Slice = StableFrom(gr, <<>>, gr.Slice)]

\* the slice index inverted: g.Map[u] = i, positions counted from 0
InvertSlice(gr) ==
    [gr EXCEPT !.Map = [u \in Range(gr.Slice) |->
                           (CHOOSE i \in 1..Len(gr.Slice) : gr.Slice[i] = u) - 1]]

\* the same loop with in[u] but without i itself
InStep_NoSelf(gr, in, i) ==
    LET u == gr.Slice[i + 1]
        later == {v \in DOMAIN gr.Index[u].D2 : gr.Map[v] > i}
        inu == IF Has(in, u) THEN in[u] ELSE {}
        in1 == IF Has(in, u) THEN in ELSE Put(in, u, {})
    IN  [v \in DOMAIN in1 \cup later |->
            IF v \in later
            THEN (IF Has(in1, v) THEN in1[v] ELSE {}) \cup inu
            ELSE in1[v]]

\* the same loop without the union of in[u] into in[v]
InStep_Direct(gr, in, i) ==
    LET u == gr.Slice[i + 1]
        later == {v \in DOMAIN gr.Index[u].D2 : gr.Map[v] > i}
        in1 == IF Has(in, u) THEN in ELSE Put(in, u, {})
    IN  [v \in DOMAIN in1 \cup later |->
            IF v \in later
            THEN (IF Has(in1, v) THEN in1[v] ELSE {}) \cup {i}
            ELSE in1[v]]

\* the inner loop of the dependency pass at position i: every co-variable v
\* of u = Slice[i] that sorts later gets i and all of in[u]
InStep(gr, in, i) ==
    LET u == gr.Slice[i + 1]
        later == {v \in DOMAIN gr.Index[u].D2 : gr.Map[v] > i}
        inu == IF Has(in, u) THEN in[u] ELSE {}
        in1 == IF Has(in, u) THEN in ELSE Put(in, u, {})
    IN  [v \in DOMAIN in1 \cup later |->
            IF v \in later
            THEN (IF Has(in1, v) THEN in1[v] ELSE {}) \cup {i} \cup inu
            ELSE in1[v]]

RECURSIVE InFrom(_, _, _)
\* the dependency pass over g.Slice in sorted order
InFrom(gr, in, i) ==
    IF i >= Len(gr.Slice) THEN in ELSE InFrom(gr, InStep(gr, in, i), i + 1)

RECURSIVE InEach(_, _, _, _)
\* the inner loop at position i taken one co-variable at a time, in the order vs
InEach(gr, in, i, vs) ==
    IF vs = <<>> THEN in
    ELSE LET v == Head(vs)
             u == gr.Slice[i + 1]
         IN  IF gr.Map[v] > i
             THEN InEach(gr, Put(in, v, (IF Has(in, v) THEN in[v] ELSE {}) \cup {i} \cup in[u]),
                         i, Tail(vs))
             ELSE InEach(gr, in, i, Tail(vs))

\* the dependency step at position i with the map g.Index[u].D2 ranged over in
\* the order vs
InStepOrdered(gr, in, i, vs) ==
    LET u == gr.Slice[i + 1]
    IN  InEach(gr, IF Has(in, u) THEN in ELSE Put(in, u, {}), i, vs)

RECURSIVE InPrefix(_, _, _, _)
\* the dependency pass over the positions before n
InPrefix(gr, in, i, n) ==
    IF i >= n THEN in ELSE InPrefix(gr, InStep(gr, in, i), i + 1, n)

\* the output map a copy of the input map
InvertIn_Same(gr, in) == [u \in Range(gr.Slice) |-> in[u]]

\* the output map left empty
InvertIn_None(gr, in) == [u \in Range(gr.Slice) |-> {}]

\* the input map inverted: out[Slice[j]] holds i for every j in in[Slice[i]]
InvertIn(gr, in) ==
    [u \in Range(gr.Slice) |->
        {gr.Map[w] : w \in {x \in DOMAIN in : gr.Map[u] \in in[x]}}]

\* the dependency maps, each list sorted ascending
Connect(gr) ==
    LET in == InFrom(gr, EmptyMap, 0)
        out == InvertIn(gr, in)
    IN  [gr EXCEPT !.In = [u \in Range(gr.Slice) |-> SetToSeq(in[u])],
                   !.Out = [u \in Range(gr.Slice) |-> SetToSeq(out[u])]]

\* MakeConstraintGraph: populate, score, sort and connect
MakeConstraintGraph(quads, d) ==
    LET r == constrainLoop(Building(EmptyGraph), d, quads, 1)
    IN  IF r.err # "nil" THEN r
        ELSE [r EXCEPT !.g = Connect(InvertSlice(SortSlice(ScoreAll(d, r.g)))),
                       !.scored = TRUE,
                       !.inserted = r.g.Slice]

-----------------------------------------------------------------------------
(* The cursor: the backtracking solver over a constraint graph *)

\* no value
Nil == -1

\* the third identifiers of the triple keys of keyspace i under prefix <<a, b>>;
\* a negative a or b leaves that column open
Column(d, i, a, b) ==
    {k[4] : k \in {x \in DOMAIN d.triples :
                      /\ x[1] = i
                      /\ (a < 0 \/ x[2] = a)
                      /\ (b < 0 \/ x[3] = b)}}

\* the identifiers that stand in both of the owner's positions of a z-degree constraint
Reflexive(d, c) ==
    {x \in 0..(d.seq - 1) :
        CASE c.Place = pSP -> Has(d.triples, <<0, x, x, c.N.id>>)
          [] c.Place = pOS -> Has(d.triples, <<0, x, c.N.id, x>>)
          [] c.Place = pPO -> Has(d.triples, <<0, c.N.id, x, x>>)}

\* what a HasID contributes to a key prefix for the variable at position i:
\* the identifier of a ground term, the current value of a co-variable that
\* sorts before i, and an open column for a co-variable that is not bound yet
Bound(gr, val, i, h) ==
    IF ~h.b THEN h.id
    ELSE IF gr.Map[h.name] < i THEN val[gr.Map[h.name]]
    ELSE Nil

\* the stream of a first- or second-degree constraint of the variable at i:
\* the range scan over the keyspace whose first two columns are M and N
Stream(gr, d, val, i, c) ==
    Column(d, (c.Place + 1) % 3, Bound(gr, val, i, c.M), Bound(gr, val, i, c.N))

\* the variable's iterator: the intersection of the streams of its constraints
Candidates(gr, d, val, i) ==
    LET var == gr.Index[gr.Slice[i + 1]]
        d2 == Flatten(var.D2, DOMAIN var.D2)
    IN  {x \in 0..(d.seq - 1) :
            /\ \A n \in 1..Len(var.D1) : x \in Stream(gr, d, val, i, var.D1[n])
            /\ \A n \in 1..Len(var.DZ) : x \in Reflexive(d, var.DZ[n])
            /\ \A n \in 1..Len(d2) : x \in Stream(gr, d, val, i, d2[n])}

InOf(gr, i) == Range(gr.In[gr.Slice[i + 1]])
OutOf(gr, i) == Range(gr.Out[gr.Slice[i + 1]])

RECURSIVE Advance(_, _, _, _, _), Forward(_, _, _, _, _)

\* variable i is exhausted: end of iteration if it depends on nothing, else
\* its iterator is restored and the deepest variable it depends on advances
Exhausted(gr, d, val, inv, i) ==
    IF InOf(gr, i) = {} THEN [end |-> TRUE, val |-> val]
    ELSE Advance(gr, d, [val EXCEPT ![i] = Nil], inv \cup {i}, Max(InOf(gr, i)))

\* variable i's iterator moves past its current value; a new value
\* invalidates the iterators of Out[i], which are then solved again
Advance(gr, d, val, inv, i) ==
    LET next == {x \in Candidates(gr, d, val, i) : x > val[i]}
    IN  IF next = {} THEN Exhausted(gr, d, val, inv, i)
        ELSE Forward(gr, d, [val EXCEPT ![i] = Min(next)],
                     (inv \ {i}) \cup OutOf(gr, i), i + 1)

\* forward from position j: every invalidated variable seeks its first value
Forward(gr, d, val, inv, j) ==
    IF j >= Len(gr.Slice) THEN [end |-> FALSE, val |-> val]
    ELSE IF j \notin inv THEN Forward(gr, d, val, inv, j + 1)
    ELSE LET first == Candidates(gr, d, val, j)
         IN  IF first = {} THEN Exhausted(gr, d, val, inv, j)
             ELSE Forward(gr, d, [val EXCEPT ![j] = Min(first)], inv \ {j}, j + 1)

Positions(gr) == 0..(Len(gr.Slice) - 1)

\* opening the cursor: every variable seeks its first value
OpenCursor(gr, d) == Forward(gr, d, [i \in Positions(gr) |-> Nil], Positions(gr), 0)

\* Next starting over from the first solution where it should end
NextFrom_Wrap(gr, d, val, i) ==
    LET r == Advance(gr, d, val, {}, i)
    IN  IF i < 0 THEN [end |-> TRUE, val |-> val]
        ELSE IF r.end THEN OpenCursor(gr, d)
        ELSE r

\* Cursor.Next(pivot): from the deepest variable, or from the pivot's position
NextFrom(gr, d, val, i) ==
    IF i < 0 THEN [end |-> TRUE, val |-> val] ELSE Advance(gr, d, val, {}, i)

-----------------------------------------------------------------------------
(* Inputs of the ingest specification *)

Cids == 1..MaxCid

GraphNames == {"@default", "g1"}

\* the nodes datasets are made of: two ground terms and one blank node
DataSubjects == {Ground("a"), Blank("_:c0")}
DataTerms == {Ground("a"), Ground("b")}

\* quads of the default graph, and one quad of a named graph
DataQuads ==
    {Quad(s, p, o, "nil") : s \in DataSubjects, p \in DataTerms, o \in DataTerms}
        \cup {Quad(Ground("a"), Ground("b"), Ground("a"), "g1")}

RECURSIVE SeqsUpTo(_, _)
SeqsUpTo(S, n) ==
    IF n = 0 THEN {<<>>}
    ELSE LET shorter == SeqsUpTo(S, n - 1)
         IN  shorter \cup {Append(q, x) : q \in {r \in shorter : Len(r) = n - 1}, x \in S}

NoCall ==
    [cid |-> 0, graph |-> "", quads |-> <<>>, err |-> "nil", pre |-> EmptyDB, dup |-> FALSE,
     failAt |-> 0, fired |-> FALSE, atFault |-> EmptyDB]

NoGraph == [graph |-> EmptyGraph, isNil |-> TRUE, scored |-> FALSE, inserted |-> <<>>]

NoCursor == [status |-> "none"]

NoURI == [step |-> "none"]

Init ==
    /\ db = EmptyDB
    /\ clock = 1
    /\ offered = 0
    /\ last = NoCall
    /\ pattern = <<>>
    /\ g = NoGraph
    /\ gerr = "nil"
    /\ cur = NoCursor
    /\ phase = "ingest"
    /\ uri = NoURI

\* one call of DB.insert
Insert ==
    /\ phase = "ingest"
    /\ \E cid \in Cids, graph \in GraphNames,
          quads \in SeqsUpTo(DataQuads, MaxOffered - offered) :
        /\ Len(quads) >= 1
        /\ LET r == insert(db, cid, quads, graph, clock, 0)
           IN  /\ db' = r.db
               /\ last' = [cid |-> cid, graph |-> graph, quads |-> quads, err |-> r.err,
                           pre |-> db, dup |-> <<cid, graph>> \in DOMAIN db.graphs,
                           failAt |-> 0, fired |-> FALSE, atFault |-> db]
        /\ offered' = offered + Len(quads)
        /\ clock' = clock + 1
    /\ UNCHANGED <<pattern, g, gerr, cur, phase, uri>>

Next == Insert

Spec == Init /\ [][Next]_vars

\* one call of DB.insert during which one operation of the key/value store
\* fails; the transaction is not used again
InsertFault ==
    /\ phase = "ingest"
    /\ offered <= MaxFaultOffered
    /\ \E cid \in Cids, graph \in GraphNames, failAt \in 1..MaxOps,
          quads \in SeqsUpTo(DataQuads, MaxFaultQuads) :
        /\ Len(quads) >= 1
        /\ LET r == insert(db, cid, quads, graph, clock, failAt)
           IN  /\ r.fired
               /\ db' = r.db
               /\ last' = [cid |-> cid, graph |-> graph, quads |-> quads, err |-> r.err,
                           pre |-> db, dup |-> <<cid, graph>> \in DOMAIN db.graphs,
                           failAt |-> failAt, fired |-> TRUE, atFault |-> r.atFault]
        /\ offered' = offered + Len(quads)
        /\ clock' = clock + 1
    /\ phase' = "failed"
    /\ UNCHANGED <<pattern, g, gerr, cur, uri>>

FaultNext == Insert \/ InsertFault

\* inserts on an initially empty store, the last of which may meet a failure
\* of the key/value store
FaultSpec == Init /\ [][FaultNext]_vars

-----------------------------------------------------------------------------
(* The query specification: a store, a pattern, a cursor *)

\* the triples a store of QuerySpec is made of: every triple over two terms
StoreTerms == <<"b", "a">>

StoreQuads ==
    [n \in 1..8 |-> Quad(Ground(StoreTerms[((n - 1) \div 4) + 1]),
                         Ground(StoreTerms[(((n - 1) \div 2) % 2) + 1]),
                         Ground(StoreTerms[((n - 1) % 2) + 1]), "nil")]

\* the dataset holding the triples numbered by T, in the order of their numbers
DatasetOf(T) == [n \in 1..Cardinality(T) |-> StoreQuads[SetToSeq(T)[n]]]

Stores == {DatasetOf(T) : T \in {X \in SUBSET (1..8) : Cardinality(X) <= MaxStore}}

\* the nodes of a pattern: three variables and the two terms stores are made
\* of; a store that holds no triple with the term b has no identifier for it
PatternNodes == {Blank("x"), Blank("y"), Blank("z"), Ground("a"), Ground("b")}

PatternQuads == {Quad(s, p, o, "nil") : s \in PatternNodes, p \in PatternNodes, o \in PatternNodes}

\* the blank node labels of a pattern in the order they first occur
RECURSIVE Labels(_, _)
Labels(nodes, seen) ==
    IF nodes = <<>> THEN seen
    ELSE LET n == Head(nodes)
         IN  IF n.b /\ n.v \notin Range(seen) THEN Labels(Tail(nodes), Append(seen, n.v))
             ELSE Labels(Tail(nodes), seen)

RECURSIVE NodesOf(_)
NodesOf(quads) ==
    IF quads = <<>> THEN <<>>
    ELSE <<Head(quads).s, Head(quads).p, Head(quads).o>> \o NodesOf(Tail(quads))

\* patterns up to the renaming of variables: labels first occur in the order x, y, z
Canonical(quads) ==
    LET ls == Labels(NodesOf(quads), <<>>)
    IN  ls = SubSeq(<<"x", "y", "z">>, 1, Len(ls))

Patterns == {q \in SeqsUpTo(PatternQuads, MaxPattern) : Canonical(q)}

\* the store holding the triples of one dataset
StoreOf(quads) == insert(EmptyDB, 1, quads, "@default", 0, 0).db

QInit ==
    /\ db \in {StoreOf(q) : q \in Stores}
    /\ clock = 1
    /\ offered = 0
    /\ last = NoCall
    /\ pattern = <<>>
    /\ g = NoGraph
    /\ gerr = "nil"
    /\ cur = NoCursor
    /\ phase = "pattern"
    /\ uri = NoURI

\* db.Query up to the constraint graph: MakeConstraintGraph on the pattern
Build ==
    /\ phase = "pattern"
    /\ \E quads \in Patterns :
        LET r == MakeConstraintGraph(quads, db)
        IN  /\ pattern' = quads
            /\ g' = [graph |-> r.g, isNil |-> r.isNil, scored |-> r.scored, inserted |-> r.inserted]
            /\ gerr' = r.err
    /\ phase' = "built"
    /\ UNCHANGED <<db, clock, offered, last, cur, uri>>

\* the cursor is opened on the graph and positioned on the first solution
Open ==
    /\ phase = "built"
    /\ gerr = "nil"
    /\ cur.status = "none"
    /\ LET r == OpenCursor(g.graph, db)
       IN  cur' = [status |-> IF r.end THEN "done" ELSE "open",
                   val |-> r.val,
                   emitted |-> IF r.end THEN <<>> ELSE <<r.val>>,
                   calls |-> 0,
                   pivoted |-> FALSE]
    /\ UNCHANGED <<db, clock, offered, last, pattern, g, gerr, phase, uri>>

\* Cursor.Next(pivot): -1 stands for the nil pivot
NextCall ==
    /\ phase = "built"
    /\ cur.status = "open"
    /\ cur.calls < MaxNext
    /\ \E pivot \in {-1} \cup Positions(g.graph) :
        LET i == IF pivot = -1 THEN Len(g.graph.Slice) - 1 ELSE pivot
            r == NextFrom(g.graph, db, cur.val, i)
        IN  cur' = [status |-> IF r.end THEN "done" ELSE "open",
                    val |-> r.val,
                    emitted |-> IF r.end THEN cur.emitted ELSE Append(cur.emitted, r.val),
                    calls |-> cur.calls + 1,
                    pivoted |-> cur.pivoted \/ pivot # -1]
    /\ UNCHANGED <<db, clock, offered, last, pattern, g, gerr, phase, uri>>

QNext == Build \/ Open \/ NextCall

QuerySpec == QInit /\ [][QNext]_vars

\* the cursor is opened by a caller that will pass the same pivot to every
\* Next call: nil (-1) or one variable of the domain
OpenSame ==
    /\ phase = "built"
    /\ gerr = "nil"
    /\ cur.status = "none"
    /\ \E pivot \in {-1} \cup Positions(g.graph) :
        LET r == OpenCursor(g.graph, db)
        IN  cur' = [status |-> IF r.end THEN "done" ELSE "open",
                    val |-> r.val,
                    emitted |-> IF r.end THEN <<>> ELSE <<r.val>>,
                    calls |-> 0,
                    pivoted |-> pivot # -1,
                    pivot |-> pivot]
    /\ UNCHANGED <<db, clock, offered, last, pattern, g, gerr, phase, uri>>

\* Cursor.Next with the caller's pivot
NextSame ==
    /\ phase = "built"
    /\ cur.status = "open"
    /\ cur.calls < MaxCalls
    /\ LET i == IF cur.pivot = -1 THEN Len(g.graph.Slice) - 1 ELSE cur.pivot
           r == NextFrom(g.graph, db, cur.val, i)
       IN  cur' = [cur EXCEPT !.status = IF r.end THEN "done" ELSE "open",
                              !.val = r.val,
                              !.emitted = IF r.end THEN @ ELSE Append(@, r.val),
                              !.calls = @ + 1]
    /\ UNCHANGED <<db, clock, offered, last, pattern, g, gerr, phase, uri>>

TNext == Build \/ OpenSame \/ NextSame

\* a caller that keeps calling Next until it gets end of iteration
TermSpec == QInit /\ [][TNext]_vars /\ WF_vars(OpenSame) /\ WF_vars(NextSame)

-----------------------------------------------------------------------------
(* Content-addressed URIs: types.UnderlayURI, types.QueryURI, types.DwebURI *)
(* A string is the sequence of its characters.                              *)

Lower ==
    {"a", "b", "c", "d", "e", "f", "g", "h", "i", "j", "k", "l", "m",
     "n", "o", "p", "q", "r", "s", "t", "u", "v", "w", "x", "y", "z"}

Upper ==
    {"A", "B", "C", "D", "E", "F", "G", "H", "I", "J", "K", "L", "M",
     "N", "O", "P", "Q", "R", "S", "T", "U", "V", "W", "X", "Y", "Z"}

\* \d
Digits == {"0", "1", "2", "3", "4", "5", "6", "7", "8", "9"}

\* [a-zA-Z0-9]
Alnum == Lower \cup Upper \cup Digits

\* the length {59} the patterns ask of the text of a CID
CidLen == 59

\* the CIDs of the model: version 1, one of three codecs, one of three digests
Codecs == {"raw", "dag-pb", "dag-cbor"}
UriCids == [codec : Codecs, digest : 0..2]

\* cid.Undef
Undef == [codec |-> "undef", digest |-> 0]

\* c.StringOfBase(multibase.Base32): the multibase prefix b and 58 characters
\* of the base32 alphabet that depend on the codec and on the digest
StringOfBase(c) ==
    <<"b",
      CASE c.codec = "raw" -> "k" [] c.codec = "dag-pb" -> "y" [] c.codec = "dag-cbor" -> "r",
      <<"2", "3", "4">>[c.digest + 1]>>
        \o [n \in 1..(CidLen - 3) |-> "a"]

\* cid.Decode: the CID a text is the encoding of, cid.Undef for any other text
Decode(text) ==
    IF \E c \in UriCids : StringOfBase(c) = text
    THEN CHOOSE c \in UriCids : StringOfBase(c) = text
    ELSE Undef

HasPrefix(u, pre) == Len(u) >= Len(pre) /\ SubSeq(u, 1, Len(pre)) = pre

\* (#(?:_:c14n\d+)?)? matched up to the end of the string
FragmentGroup(t) ==
    \/ t = <<>>
    \/ t = <<"#">>
    \/ /\ Len(t) >= 8
       /\ SubSeq(t, 1, 7) = <<"#", "_", ":", "c", "1", "4", "n">>
       /\ \A n \in 8..Len(t) : t[n] \in Digits

\* FindStringSubmatch for ^<scheme>([a-zA-Z0-9]{59})<rest>$ where <rest> is
\* the fragment group or nothing: whether the string matches, and the groups
Submatch(scheme, fragments, u) ==
    LET n == Len(scheme)
        m1 == SubSeq(u, n + 1, n + CidLen)
        m2 == SubSeq(u, n + CidLen + 1, Len(u))
    IN  [ok |-> /\ HasPrefix(u, scheme)
                /\ Len(u) >= n + CidLen
                /\ \A k \in 1..CidLen : m1[k] \in Alnum
                /\ IF fragments THEN FragmentGroup(m2) ELSE m2 = <<>>,
         m1 |-> m1, m2 |-> m2]

testUlURI(u) == Submatch(<<"u", ":">>, TRUE, u)

testQueryURI(u) == Submatch(<<"q", ":">>, TRUE, u)

testDwebURI(u) == Submatch(<<"d", "w", "e", "b", ":", "/", "i", "p", "f", "s", "/">>, FALSE, u)

\* the zero values Parse returns for a string that does not match
NoParse == [c |-> Undef, fragment |-> <<>>]

underlayURIParse(u) ==
    LET m == testUlURI(u)
    IN  IF m.ok THEN [c |-> Decode(m.m1), fragment |-> m.m2] ELSE NoParse

underlayURIString(c, fragment) == <<"u", ":">> \o StringOfBase(c) \o fragment

underlayURITest(u) == testUlURI(u).ok

\* queries must be raw codecs
queryURIParse(u) ==
    LET m == testQueryURI(u)
    IN  IF ~m.ok THEN NoParse
        ELSE IF Decode(m.m1).codec = "raw" THEN [c |-> Decode(m.m1), fragment |-> m.m2]
        ELSE NoParse

queryURIString(c, fragment) == <<"u", ":">> \o StringOfBase(c) \o fragment

queryURITest(u) == testQueryURI(u).ok

dwebURIParse(u) ==
    LET m == testDwebURI(u)
    IN  IF m.ok THEN [c |-> Decode(m.m1), fragment |-> <<>>] ELSE NoParse

dwebURIString(c, fragment) ==
    <<"d", "w", "e", "b", ":", "/", "i", "p", "f", "s", "/">> \o StringOfBase(c) \o fragment

dwebURITest(u) == testDwebURI(u).ok

\* the URI interface
Schemes == {"UnderlayURI", "QueryURI", "DwebURI"}

Parse(scheme, u) ==
    CASE scheme = "UnderlayURI" -> underlayURIParse(u)
      [] scheme = "QueryURI" -> queryURIParse(u)
      [] scheme = "DwebURI" -> dwebURIParse(u)

String(scheme, c, fragment) ==
    CASE scheme = "UnderlayURI" -> underlayURIString(c, fragment)
      [] scheme = "QueryURI" -> queryURIString(c, fragment)
      [] scheme = "DwebURI" -> dwebURIString(c, fragment)

Test(scheme, u) ==
    CASE scheme = "UnderlayURI" -> underlayURITest(u)
      [] scheme = "QueryURI" -> queryURITest(u)
      [] scheme = "DwebURI" -> dwebURITest(u)

\* the fragments handed to String: none, the bare #, two blank node labels,
\* and one that no scheme allows
UriFragments ==
    {<<>>, <<"#">>,
     <<"#", "_", ":", "c", "1", "4", "n", "0">>,
     <<"#", "_", ":", "c", "1", "4", "n", "1", "2">>,
     <<"#", "x">>}

UInit ==
    /\ db = EmptyDB
    /\ clock = 1
    /\ offered = 0
    /\ last = NoCall
    /\ pattern = <<>>
    /\ g = NoGraph
    /\ gerr = "nil"
    /\ cur = NoCursor
    /\ phase = "uri"
    /\ uri \in [step : {"input"}, scheme : Schemes, c : UriCids, fragment : UriFragments,
                 text : {<<>>}, test : {FALSE}, parsed : {NoParse}]

\* scheme.String(c, fragment)
URIString ==
    /\ phase = "uri"
    /\ uri.step = "input"
    /\ uri' = [uri EXCEPT !.step = "string", !.text = String(uri.scheme, uri.c, uri.fragment)]
    /\ UNCHANGED <<db, clock, offered, last, pattern, g, gerr, cur, phase>>

\* scheme.Test and scheme.Parse on the string
URIParse ==
    /\ phase = "uri"
    /\ uri.step = "string"
    /\ uri' = [uri EXCEPT !.step = "parsed",
                          !.test = Test(uri.scheme, uri.text),
                          !.parsed = Parse(uri.scheme, uri.text)]
    /\ UNCHANGED <<db, clock, offered, last, pattern, g, gerr, cur, phase>>

UNext == URIString \/ URIParse

URISpec == UInit /\ [][UNext]_vars

-----------------------------------------------------------------------------
(* Properties of the ingest path *)

\* the quads of the last call that belong to the graph being inserted
LastQuads == {n \in 1..Len(last.quads) : QuadGraph(last.quads[n]) = last.graph}

\* the last call went through the loop over quads and returned no error
LastWritten == last.cid # 0 /\ ~last.dup /\ last.err = "nil"

\* the identifier the store's dictionary holds for a node of dataset cid
IdOf(d, cid, node) == d.index[NodeToValue(cid, node)].id

\* the distinct triples of the store, read off the SPO keyspace
TripleSet(d) == {<<k[2], k[3], k[4]>> : k \in {x \in DOMAIN d.triples : x[1] = 0}}

\* the stored triples whose rotation under a count keyspace starts with <<a, b>>
WithPrefix(d, kind, i, a, b) ==
    {t \in TripleSet(d) :
        LET k == IF kind = "major" THEN permuteMajor(i, t[1], t[2], t[3])
                 ELSE permuteMinor(i, t[1], t[2], t[3])
        IN  k[1] = a /\ k[2] = b}

\* every two-term count key a store over the identifiers in use can hold
CountKeys(d) ==
    {<<kind, i, a, b>> : kind \in {"major", "minor"}, i \in 0..2,
                         a \in 0..(d.seq - 1), b \in 0..(d.seq - 1)}

\* C5 (as claimed): after a successful insert every inserted quad has a triple
\* entry under each of the six permutations (keyspaces 0..2 are SPO, POS, OSP,
\* keyspaces 3..5 are SOP, PSO, OPS) and a count entry under each of the three
\* major and three minor two-term keyspaces.
C5_TwelveEntries ==
    LastWritten =>
        \A n \in LastQuads :
            LET q == last.quads[n]
                s == IdOf(db, last.cid, q.s)
                p == IdOf(db, last.cid, q.p)
                o == IdOf(db, last.cid, q.o)
            IN  \A i \in 0..2 :
                    LET mj == permuteMajor(i, s, p, o)
                        mn == permuteMinor(i, s, p, o)
                    IN  /\ Has(db.triples, <<i, mj[1], mj[2], mj[3]>>)
                        /\ Has(db.triples, <<3 + i, mn[1], mn[2], mn[3]>>)
                        /\ Has(db.counts, <<"major", i, mj[1], mj[2]>>)
                        /\ Has(db.counts, <<"minor", i, mn[1], mn[2]>>)

\* C6 (as claimed): every two-term count equals the number of stored triples
\* sharing that prefix, and a count key is absent exactly when there is none.
C6_CountIsRangeSize ==
    \A key \in CountKeys(db) :
        LET n == Cardinality(WithPrefix(db, key[1], key[2], key[3], key[4]))
        IN  IF Has(db.counts, key) THEN db.counts[key] = n ELSE n = 0

\* C9: identifiers are stable and unambiguous. Every term of an inserted quad
\* has an identifier and the triple is stored under it; a term that had an
\* identifier before a call has the same one after it; two distinct terms never
\* share an identifier, and the value table is the inverse of the dictionary.
C9_StableIds ==
    /\ \A v \in DOMAIN last.pre.index :
           Has(db.index, v) /\ db.index[v].id = last.pre.index[v].id
    /\ \A v, w \in DOMAIN db.index : db.index[v].id = db.index[w].id => v = w
    /\ \A v \in DOMAIN db.index :
           Has(db.values, db.index[v].id) /\ db.values[db.index[v].id] = v
    /\ LastWritten =>
           \A n \in LastQuads :
               LET q == last.quads[n]
               IN  /\ \A node \in {q.s, q.p, q.o} : Has(db.index, NodeToValue(last.cid, node))
                   /\ Has(db.triples, <<0, IdOf(db, last.cid, q.s), IdOf(db, last.cid, q.p),
                                           IdOf(db, last.cid, q.o)>>)

\* a second call that meets terms of an earlier one and brings new ones
C9_Witness ==
    /\ LastWritten
    /\ last.pre.index # EmptyMap
    /\ \E n \in LastQuads : Has(last.pre.index, NodeToValue(last.cid, last.quads[n].o))
    /\ DOMAIN db.index # DOMAIN last.pre.index

\* C10: inserting a (cid, graph) that is already in the database returns no
\* error and leaves the whole store as it was: counts, source lists, the
\* dictionary and the graph key's timestamp.
C10_DuplicateNoOp == last.dup => (last.err = "nil" /\ db = last.pre)

\* a repeated document whose quads would otherwise have been written
C10_Witness ==
    /\ last.dup
    /\ LastQuads # {}
    /\ db.graphs[<<last.cid, last.graph>>] < clock - 1

\* the identifiers the store has handed out
Ids(d) == 0..(d.seq - 1)

\* C16: majors and minors have the same values. insert never returns the
\* mismatch error, and for every i and every ordered pair (a, b) the count
\* stored under major keyspace i for (a, b) is the count stored under minor
\* keyspace (i + 1) mod 3 for (b, a); a missing key counts 0.
C16_MajorsMatchMinors ==
    /\ last.err # ErrMismatch
    /\ \A i \in 0..2 : \A a, b \in Ids(db) :
          CountAt(db, <<"major", i, a, b>>) = CountAt(db, <<"minor", (i + 1) % 3, b, a>>)

\* a later call inserts a triple that repeats a term in two positions and that
\* an earlier call has inserted already
C16_Witness ==
    /\ LastWritten
    /\ \E n \in LastQuads :
          LET q == last.quads[n]
              s == IdOf(db, last.cid, q.s)
              p == IdOf(db, last.cid, q.p)
              o == IdOf(db, last.cid, q.o)
          IN  /\ p = o
              /\ Has(last.pre.triples, <<0, s, p, o>>)
              /\ db.counts[<<"major", 1, p, o>>] >= 2

\* the triple keys of keyspace i under the prefix (a, b)
KeysUnder(d, i, a, b) == {k \in DOMAIN d.triples : k[1] = i /\ k[2] = a /\ k[3] = b}

RECURSIVE SumSources(_, _)
\* the number of sources in the source lists of a set of triple keys
SumSources(d, keys) ==
    IF keys = {} THEN 0
    ELSE LET k == CHOOSE x \in keys : TRUE
         IN  Len(d.triples[k]) + SumSources(d, keys \ {k})

\* the triple key of keyspace i for quad number n of the last call
LastKey(i, n) ==
    LET q == last.quads[n]
        k == permuteMajor(i, IdOf(db, last.cid, q.s), IdOf(db, last.cid, q.p),
                          IdOf(db, last.cid, q.o))
    IN  <<i, k[1], k[2], k[3]>>

RECURSIVE LastSources(_, _)
\* the sources of the quads of the last call that fall on a triple key, from quad n on
LastSources(key, n) ==
    IF n > Len(last.quads) THEN <<>>
    ELSE IF n \in LastQuads /\ LastKey(key[1], n) = key
    THEN <<[cid |-> last.cid, graph |-> last.graph, index |-> n - 1]>> \o LastSources(key, n + 1)
    ELSE LastSources(key, n + 1)

\* C19: for each major keyspace and every ordered pair (a, b) the count at the
\* two-term key is the number of sources in the source lists of all triple
\* keys under (a, b); no triple key has an empty source list; and a successful
\* call appends to each triple key one source for each of its quads that is
\* this triple, and nothing else.
C19_CountsSumSources ==
    /\ \A i \in 0..2 : \A a, b \in Ids(db) :
          CountAt(db, <<"major", i, a, b>>) = SumSources(db, KeysUnder(db, i, a, b))
    /\ \A k \in DOMAIN db.triples : Len(db.triples[k]) >= 1
    /\ LastWritten =>
          \A k \in DOMAIN db.triples :
              db.triples[k] = (IF Has(last.pre.triples, k) THEN last.pre.triples[k] ELSE <<>>)
                                  \o LastSources(k, 1)

\* a triple key that holds a source of an earlier call and one of the last
\* call, under a prefix it shares with another triple key
C19_Witness ==
    /\ LastWritten
    /\ \E k \in DOMAIN db.triples :
          /\ Has(last.pre.triples, k)
          /\ Len(db.triples[k]) = 2
          /\ LastSources(k, 1) # <<>>
    /\ \E k \in DOMAIN db.triples : Cardinality(KeysUnder(db, k[1], k[2], k[3])) = 2

\* C20 (as claimed): whatever operation of the key/value store fails during
\* insert, with an error other than key-not-found, insert returns that error
\* and the transaction holds the writes made before the failure and no other.
C20_FailurePropagates ==
    last.fired => (last.err = ErrKV /\ db = last.atFault)

\* the same for every operation but the lookup of the graph key, which is the
\* first operation of the call
C20_LaterFailuresPropagate ==
    (last.fired /\ last.failAt > 1) => (last.err = ErrKV /\ db = last.atFault)

\* a failure after the call has written counts and before it has written the
\* triple keys
C20_LaterWitness ==
    /\ last.fired /\ last.failAt > 1
    /\ db.counts # last.pre.counts
    /\ db.triples = last.pre.triples

-----------------------------------------------------------------------------
(* Properties of the query path *)

Built == phase = "built"

BuiltOk == phase = "built" /\ gerr = "nil"

HasVar(quad) == quad.s.b \/ quad.p.b \/ quad.o.b

AllVar(quad) == quad.s.b /\ quad.p.b /\ quad.o.b

\* a ground node the dictionary of the store has no identifier for
Unknown(node) == ~node.b /\ ~Has(db.index, NodeToValue(0, node))

\* the identifier a pattern node stands for under an assignment of the
\* variables (by position in g.Slice); -2 for a term the store does not know
Value(node, val) ==
    IF node.b THEN val[g.graph.Map[node.v]]
    ELSE IF Unknown(node) THEN -2
    ELSE db.index[NodeToValue(0, node)].id

\* the pattern triple with the assignment substituted is in the store
Holds(quad, val) ==
    <<Value(quad.s, val), Value(quad.p, val), Value(quad.o, val)>> \in TripleSet(db)

\* the assignments that satisfy every pattern triple
Solutions ==
    {val \in [Positions(g.graph) -> 0..(db.seq - 1)] :
        \A n \in 1..Len(pattern) : Holds(pattern[n], val)}

Times(val) == Cardinality({n \in 1..Len(cur.emitted) : cur.emitted[n] = val})

\* C1 (as claimed): a cursor driven by Next(nil) until end of iteration has
\* produced every assignment that satisfies all pattern triples, each exactly once.
C1_Complete ==
    (BuiltOk /\ cur.status = "done" /\ ~cur.pivoted) =>
        \A val \in Solutions : Times(val) = 1

\* C2 (as claimed): whenever the cursor stands on an assignment, every
\* pattern triple with the values substituted is present in the store.
C2_SoundEveryTriple ==
    (BuiltOk /\ cur.status = "open") =>
        \A n \in 1..Len(pattern) : Holds(pattern[n], cur.val)

\* C2 (amended): whenever the cursor stands on an assignment, after the
\* initial positioning and after any Next call with or without a pivot, every
\* pattern triple that mentions a variable, with the values substituted, is
\* present in the store.
C2_Sound ==
    (BuiltOk /\ cur.status = "open") =>
        \A n \in 1..Len(pattern) : HasVar(pattern[n]) => Holds(pattern[n], cur.val)

\* a Next call with a pivot moved one variable, made a dependent variable seek
\* again and left a variable that depends on neither where it was
C2_Witness ==
    /\ BuiltOk /\ cur.status = "open" /\ cur.pivoted
    /\ Len(cur.emitted) >= 2
    /\ LET new == cur.emitted[Len(cur.emitted)]
           old == cur.emitted[Len(cur.emitted) - 1]
       IN  \E i, j, k \in Positions(g.graph) :
              /\ new[i] # old[i]
              /\ j \in OutOf(g.graph, i) /\ new[j] # old[j]
              /\ k # i /\ k \notin OutOf(g.graph, i) /\ new[k] = old[k]

\* C3 (as claimed): a pattern in which a triple with a variable mentions a
\* ground term the dictionary does not know is no error: building the
\* constraint graph returns no error value.
C3_UnknownTermNoError ==
    (Built /\ \E n \in 1..Len(pattern) :
                 /\ HasVar(pattern[n])
                 /\ Unknown(pattern[n].s) \/ Unknown(pattern[n].p) \/ Unknown(pattern[n].o))
        => gerr = "nil"

\* C4 (as claimed): a pattern with an all-variable triple, wherever it
\* occurs, makes MakeConstraintGraph fail with the malformed-pattern error,
\* return no graph and score no variable.
C4_MalformedAnywhere ==
    (Built /\ \E n \in 1..Len(pattern) : AllVar(pattern[n]))
        => (gerr = ErrAllBlank /\ g.isNil /\ ~g.scored)

ScoreAt(i) == g.graph.Index[g.graph.Slice[i]].Score

\* the place of a variable in the order of first insertion into the graph
\* (the order in which the labels first occur in the pattern)
InsertedAt(u) ==
    LET ls == Labels(NodesOf(pattern), <<>>)
    IN  CHOOSE n \in 1..Len(ls) : ls[n] = u

\* C7: the execution order is ascending by score, variables of equal score
\* stand in the order of their first insertion, and g.Map is the inverse of
\* g.Slice.
C7_StableOrder ==
    BuiltOk =>
        LET sl == g.graph.Slice
        IN  /\ Range(sl) = Range(Labels(NodesOf(pattern), <<>>))
            /\ \A i, j \in 1..Len(sl) :
                  i < j =>
                      /\ sl[i] # sl[j]
                      /\ ScoreAt(i) <= ScoreAt(j)
                      /\ ScoreAt(i) = ScoreAt(j) => InsertedAt(sl[i]) < InsertedAt(sl[j])
            /\ DOMAIN g.graph.Map = Range(sl)
            /\ \A i \in 1..Len(sl) : g.graph.Map[sl[i]] = i - 1

\* three variables: two of equal score, and one inserted first that sorts last
C7_Witness ==
    /\ BuiltOk
    /\ Len(g.graph.Slice) = 3
    /\ g.graph.Slice # g.inserted
    /\ \E i \in 1..2 : ScoreAt(i) = ScoreAt(i + 1)
    /\ \E i \in 1..2 : ScoreAt(i) < ScoreAt(i + 1)

CoVariables(v) == DOMAIN g.graph.Index[v].D2

\* C8 (as claimed): the position of every co-variable u of a variable v is in In[v].
C8_ClosureAll ==
    BuiltOk =>
        \A v \in Range(g.graph.Slice) : \A u \in CoVariables(v) :
            u = v \/ g.graph.Map[u] \in Range(g.graph.In[v])

\* C8 (amended): the position of every co-variable u of a variable v that
\* sorts before v is in In[v].
C8_ClosureEarlier ==
    BuiltOk =>
        \A v \in Range(g.graph.Slice) : \A u \in CoVariables(v) :
            g.graph.Map[u] < g.graph.Map[v] => g.graph.Map[u] \in Range(g.graph.In[v])

\* a variable with a co-variable before it and one behind it
C8_Witness ==
    /\ BuiltOk
    /\ \E v \in Range(g.graph.Slice) : \E u, w \in CoVariables(v) :
          g.graph.Map[u] < g.graph.Map[v] /\ g.graph.Map[v] < g.graph.Map[w]

\* the three nodes of a pattern quad: subject, predicate, object
NodesAt(quad) == <<quad.s, quad.p, quad.o>>

\* the HasID a pattern node stands for in a constraint: the blank node
\* itself, or the dictionary entry of a ground term
HasIDOf(node) ==
    IF node.b THEN BlankNode(node.v) ELSE IndexID(db.index[NodeToValue(0, node)])

\* the second-degree constraints of a variable, under all its co-variables
D2Of(u) == Flatten(g.graph.Index[u].D2, DOMAIN g.graph.Index[u].D2)

\* the first- and second-degree constraints of a variable
SinglePlace(u) == g.graph.Index[u].D1 \o D2Of(u)

\* C11: every first-degree and every second-degree constraint stands at the
\* position of its owner variable in the triple, and (M, N) are the two other
\* terms of the triple in rotation after it: (predicate, object) for a
\* subject, (object, subject) for a predicate, (subject, predicate) for an object.
C11_CanonicalOrder ==
    BuiltOk =>
        \A u \in Range(g.graph.Slice) : \A n \in 1..Len(SinglePlace(u)) :
            LET c == SinglePlace(u)[n]
                nodes == NodesAt(pattern[c.quad])
            IN  /\ c.Place \in {pS, pP, pO}
                /\ nodes[c.Place + 1] = Blank(u)
                /\ c.M = HasIDOf(nodes[((c.Place + 1) % 3) + 1])
                /\ c.N = HasIDOf(nodes[((c.Place + 2) % 3) + 1])

\* a graph with a first-degree constraint of a predicate variable and
\* second-degree constraints of a subject and an object variable
C11_Witness ==
    /\ BuiltOk
    /\ \E u \in Range(g.graph.Slice) : \E n \in 1..Len(g.graph.Index[u].D1) :
          g.graph.Index[u].D1[n].Place = pP
    /\ \E u, v \in Range(g.graph.Slice) :
          /\ \E n \in 1..Len(D2Of(u)) : D2Of(u)[n].Place = pS
          /\ \E n \in 1..Len(D2Of(v)) : D2Of(v)[n].Place = pO

\* the second-degree constraints of the graph, each with its owner and the
\* co-variable it is attached under
AllD2 ==
    UNION {UNION {{[owner |-> u, co |-> w, c |-> g.graph.Index[u].D2[w][n]] :
                      n \in 1..Len(g.graph.Index[u].D2[w])} :
                  w \in DOMAIN g.graph.Index[u].D2} :
           u \in Range(g.graph.Slice)}

\* the constraints a Dual pointer leads to
Deref(ref) == {e \in AllD2 : e.c.quad = ref.quad /\ e.c.Place = ref.Place}

\* the position (0, 1, 2) of the single ground term of a two-variable triple
GroundPlace(quad) == CHOOSE i \in 0..2 : ~NodesAt(quad)[i + 1].b

\* C12 (as claimed): in both constraints of a dual pair M is the identifier
\* of the triple's ground term and N is the co-variable.
C12_GroundIsM ==
    BuiltOk =>
        \A e \in AllD2 :
            LET quad == pattern[e.c.quad]
            IN  /\ e.c.M = HasIDOf(NodesAt(quad)[GroundPlace(quad) + 1])
                /\ e.c.N = BlankNode(e.co)

\* C12 (amended): each constraint of a dual pair holds the identifier of the
\* triple's ground term in one of M, N and the co-variable in the other; the
\* co-variable is N exactly when the ground term follows the owner's position
\* in the rotation S, P, O, so it is N in one constraint of the pair and M in
\* its dual.
C12_DualRoles ==
    BuiltOk =>
        \A e \in AllD2 :
            LET quad == pattern[e.c.quad]
                gnd == HasIDOf(NodesAt(quad)[GroundPlace(quad) + 1])
                co == BlankNode(e.co)
            IN  /\ ~gnd.b
                /\ \/ e.c.M = gnd /\ e.c.N = co
                   \/ e.c.M = co /\ e.c.N = gnd
                /\ (e.c.N = co) <=> (GroundPlace(quad) = (e.c.Place + 1) % 3)
                /\ \A d \in Deref(e.c.Dual) : d.c.M.b # e.c.M.b

\* a dual pair: the co-variable is M in one constraint and N in its dual
C12_Witness ==
    /\ BuiltOk
    /\ \E e \in AllD2 : \E d \in Deref(e.c.Dual) :
          /\ e.c.M = BlankNode(e.co)
          /\ d.c.N = BlankNode(d.co)
          /\ d.owner = e.co /\ d.co = e.owner

\* the blank node labels of a pattern quad
VarsOf(quad) == {n.v : n \in {x \in Range(NodesAt(quad)) : x.b}}

\* a pattern triple with two distinct variables and one ground term
TwoVariables(quad) == ~AllVar(quad) /\ Cardinality(VarsOf(quad)) = 2

\* C13: a pattern triple with two distinct variables a and b has exactly two
\* second-degree constraints, one of a attached under b and one of b attached
\* under a, each the Dual of the other and neither its own Dual; no other
\* triple has any. So b is a co-variable of a if and only if a is one of b,
\* and no variable is its own co-variable.
C13_DualInvolution ==
    BuiltOk =>
        /\ \A n \in 1..Len(pattern) :
              LET es == {e \in AllD2 : e.c.quad = n}
              IN  IF TwoVariables(pattern[n])
                  THEN /\ Cardinality(es) = 2
                       /\ {e.owner : e \in es} = VarsOf(pattern[n])
                       /\ \A e \in es :
                              /\ e.co \in VarsOf(pattern[n]) \ {e.owner}
                              /\ Deref(e.c.Dual) = es \ {e}
                              /\ \A d \in Deref(e.c.Dual) : Deref(d.c.Dual) = {e}
                  ELSE es = {}
        /\ \A u, w \in Range(g.graph.Slice) :
              /\ (w \in CoVariables(u)) <=> (u \in CoVariables(w))
              /\ u \notin CoVariables(u)

\* a pattern with a two-variable triple and a triple that holds one variable
\* in two positions
C13_Witness ==
    /\ BuiltOk
    /\ \E n, m \in 1..Len(pattern) :
          /\ TwoVariables(pattern[n])
          /\ Cardinality(VarsOf(pattern[m])) = 1
          /\ \E u \in Range(g.graph.Slice) : \E k \in 1..Len(g.graph.Index[u].DZ) :
                g.graph.Index[u].DZ[k].quad = m

\* C14: Out is the inversion of In. Both maps have a list for every variable
\* of the slice and for nothing else, j is in In[Slice[i]] exactly when i is
\* in Out[Slice[j]], and every list is strictly ascending.
C14_OutInvertsIn ==
    BuiltOk =>
        LET gr == g.graph
        IN  /\ DOMAIN gr.In = Range(gr.Slice)
            /\ DOMAIN gr.Out = Range(gr.Slice)
            /\ \A i, j \in Positions(gr) : (j \in InOf(gr, i)) <=> (i \in OutOf(gr, j))
            /\ \A u \in Range(gr.Slice) : \A l \in {gr.In[u], gr.Out[u]} :
                  /\ Range(l) \subseteq Positions(gr)
                  /\ \A n \in 1..(Len(l) - 1) : l[n] < l[n + 1]

\* a variable with two inputs and a variable with two outputs
C14_Witness ==
    /\ BuiltOk
    /\ \E u, v \in Range(g.graph.Slice) :
          Len(g.graph.In[u]) = 2 /\ Len(g.graph.Out[v]) = 2

\* the positions before i reached from the variable at i over second-degree
\* edges, every edge leading to a smaller position
RECURSIVE Reach(_, _)
Reach(gr, i) ==
    LET before == {gr.Map[u] : u \in {w \in DOMAIN gr.Index[gr.Slice[i + 1]].D2 : gr.Map[w] < i}}
    IN  before \cup UNION {Reach(gr, j) : j \in before}

\* the orders in which a set can be ranged over
Orders(S) ==
    {f \in [1..Cardinality(S) -> S] : \A m, n \in 1..Cardinality(S) : f[m] = f[n] => m = n}

\* C15: In[v] is the set of positions reached from v over second-degree edges
\* of strictly decreasing position: its elements are smaller than v's
\* position, it holds every co-variable that sorts earlier, it is transitively
\* closed, and every step of the pass gives the same map in whatever order
\* the co-variable map D2 is ranged over.
C15_InIsReach ==
    BuiltOk =>
        LET gr == g.graph
        IN  /\ \A i \in Positions(gr) :
                  /\ InOf(gr, i) = Reach(gr, i)
                  /\ \A j \in InOf(gr, i) : j < i /\ InOf(gr, j) \subseteq InOf(gr, i)
                  /\ \A u \in CoVariables(gr.Slice[i + 1]) :
                         gr.Map[u] < i => gr.Map[u] \in InOf(gr, i)
            /\ \A i \in Positions(gr) :
                  LET in == InPrefix(gr, EmptyMap, 0, i)
                  IN  \A vs \in Orders(DOMAIN gr.Index[gr.Slice[i + 1]].D2) :
                         InStepOrdered(gr, in, i, vs) = InStep(gr, in, i)

\* a variable whose In holds the position of a variable that is not one of
\* its co-variables: it is reached over a chain of two edges
C15_Witness ==
    /\ BuiltOk
    /\ \E i \in Positions(g.graph) : \E j \in InOf(g.graph, i) :
          g.graph.Slice[j + 1] \notin CoVariables(g.graph.Slice[i + 1])

\* assignment v comes before assignment w in the lexicographic order of the
\* values of the variables in sorted order
LexLess(v, w) ==
    \E i \in DOMAIN v : v[i] < w[i] /\ \A j \in DOMAIN v : j < i => v[j] = w[j]

RECURSIVE Pow(_, _)
Pow(b, n) == IF n = 0 THEN 1 ELSE b * Pow(b, n - 1)

\* C17: a caller that opens a cursor and keeps calling Next with the same
\* pivot, nil or a variable, gets end of iteration after finitely many calls.
\* Every assignment a Next call returns comes after the one before it in
\* lexicographic order, so none is returned twice, and a cursor that has not
\* ended has returned no more assignments than there are assignments of its
\* variables to the identifiers of the store.
C17_Terminates ==
    (BuiltOk /\ cur.status # "none") =>
        /\ \A n \in 1..(Len(cur.emitted) - 1) : LexLess(cur.emitted[n], cur.emitted[n + 1])
        /\ Len(cur.emitted) <= Pow(db.seq, Len(g.graph.Slice))
        /\ cur.status = "open" => cur.calls < Pow(db.seq, Len(g.graph.Slice))

\* a cursor over two variables that returned two assignments to the calls of
\* one pivot variable, and the end of iteration to the next call
C17_Witness ==
    /\ BuiltOk /\ cur.status = "done"
    /\ cur.pivoted
    /\ Len(cur.emitted) >= 2
    /\ cur.calls = Len(cur.emitted)
    /\ Len(g.graph.Slice) >= 2

\* the fragments a scheme allows: none for dweb:, and for u: and q: none,
\* the bare # or # with a canonical blank node label
FragmentAllowed(scheme, fragment) ==
    IF scheme = "DwebURI" THEN fragment = <<>> ELSE FragmentGroup(fragment)

\* the scheme's functions were applied to a CID and a fragment it allows
RoundTripped ==
    /\ uri.step = "parsed"
    /\ FragmentAllowed(uri.scheme, uri.fragment)
    /\ uri.scheme = "QueryURI" => uri.c.codec = "raw"

\* C18 (as claimed): for each of the three schemes, Test accepts the string
\* String makes of a CID and an allowed fragment, Parse gives the CID and the
\* fragment back, and the string QueryURI makes begins with q:.
C18_RoundTrip ==
    RoundTripped =>
        /\ uri.test
        /\ uri.parsed = [c |-> uri.c, fragment |-> uri.fragment]
        /\ uri.scheme = "QueryURI" => HasPrefix(uri.text, <<"q", ":">>)

\* the same for UnderlayURI and DwebURI alone
C18_OthersRoundTrip ==
    (RoundTripped /\ uri.scheme # "QueryURI") =>
        /\ uri.test
        /\ uri.parsed = [c |-> uri.c, fragment |-> uri.fragment]

\* an underlay URI with a blank node label went through String, Test and Parse
C18_OthersWitness ==
    /\ RoundTripped
    /\ uri.scheme = "UnderlayURI"
    /\ Len(uri.fragment) > 1
    /\ uri.c.codec # "raw"

====
